---- MODULE Spec2Model ----
(***************************************************************************)
(* The environmental risk pipeline of src/main.js: WeatherAPI (periodic    *)
(* observation fetch), HeavyRainDetector (risk classification),            *)
(* RainfallPredictor (history window, LSTM training, forecast) and the     *)
(* updateWeatherUI tick that wires them together.                          *)
(*                                                                         *)
(* Units.  Time is counted in update intervals (updateInterval = 10 min),  *)
(* so the 24 h retention horizon is DayUnits = 144.  Rainfall amounts are  *)
(* in tenths of mm/h (Scale = 10): the thresholds 10/30/50 of the source   *)
(* read 10*Scale etc.  A raw predicted value is a rational [num, den] in   *)
(* mm/h.  Floating-point rounding error is modelled where it changes a     *)
(* result, in the sum of calculateTrend (SumError), and nowhere else: the  *)
(* arguments of calculateRainfall are whole percents, for which the exact  *)
(* and the double-precision results agree.                                 *)
(*                                                                         *)
(* The pure functions (the flood level mappings, analyzeRainfallRisk,      *)
(* predict) are also called directly, outside the tick: SpecMapper,        *)
(* SpecRisk and SpecPredict draw the arguments in their initial states and *)
(* record argument and result of the call in probe.                        *)
(*                                                                         *)
(* TensorFlow.js is an external library.  Of model.fit the model keeps:    *)
(* it runs asynchronously, it updates the weights of this.model in place   *)
(* batch after batch, it may reject, and a second fit on a model that is   *)
(* already training rejects at once.  Of model.predict it keeps: it reads  *)
(* the weights at the time of the call and its output is some value >= 0   *)
(* (final relu), drawn from ModelOutputs.  Of prediction.data() it keeps:  *)
(* it resolves later; of two reads awaited at once either may be first.    *)
(***************************************************************************)
EXTENDS Integers, Sequences, FiniteSets, TLC

VARIABLES
    now,             \* Date.now(), in update intervals
    autoUpdate,      \* WeatherAPI.autoUpdate
    intervalId,      \* WeatherAPI.intervalId (0: undefined)
    timers,          \* active setInterval timers: set of [id, due]
    nextTimer,       \* next id setInterval hands out
    currentData,     \* WeatherAPI.currentData
    fetches,         \* fetchRealData calls in flight
    detectionEnabled,\* HeavyRainDetector.detectionEnabled
    alertLevel,      \* HeavyRainDetector.alertLevel
    historicalData,  \* RainfallPredictor.historicalData
    isModelReady,    \* RainfallPredictor.isModelReady
    fit,             \* the model.fit in progress on this.model: none, initial, retrain
    weights,         \* parameters of this.model: [gen, partial]
    pending,         \* predict calls suspended at await prediction.data()
    displayed,       \* the forecast last handed to updatePredictionUI
    rejections,      \* promise rejections nobody handles
    log,             \* observation record: counters and the last stop/start
    warningMarkers,  \* HeavyRainDetector.warningMarkers
    lastFetch,       \* observation record: how the last fetchRealData ended
    probe            \* a direct call of one of the pure functions: arguments, result

vars == << now, autoUpdate, intervalId, timers, nextTimer, currentData, fetches,
           detectionEnabled, alertLevel, historicalData, isModelReady, fit,
           weights, pending, displayed, rejections, log, warningMarkers,
           lastFetch, probe >>

----------------------------------------------------------------------------
(* Program constants *)

Scale == 10
DayUnits == 144
sequenceLength == 10
RetrainFloor == 50
RetrainEvery == 20

(* Bounds of the exploration *)

MaxAppends == 3
MaxTime == 148
MaxClicks == 2
MaxPending == 2
MaxTimers == 2
MaxFetches == 2
SteadyAppends == 162
SteadyTime == 164
ApiAppends == 2
ApiTime == 3
ArgBelow == 30
ArgMax == 1030
RainMax == 5500
MaxRainfall == 610
MaxHistory == 36
MaxMarkers == 2

Null == -1

Min(a, b) == IF a <= b THEN a ELSE b

\* distances between the two arguments of a direct call
ArgGaps == {1, 7, 250}

\* observations the weather API (or the mock generator) can deliver
Observations ==
    { [rainfall |-> 0,   humidity |-> 60, temperature |-> 25],
      [rainfall |-> 80,  humidity |-> 80, temperature |-> 22],
      [rainfall |-> 550, humidity |-> 95, temperature |-> 18] }

\* those of them generateMockData can produce (humidity 60..90, temperature 20..30)
MockObservations == { o \in Observations : o.humidity <= 90 /\ o.temperature >= 20 }

SteadyObservation == [rainfall |-> 50, humidity |-> 70, temperature |-> 24]

\* raw values model.predict(...)*100 can give, as rationals in mm/h
SteadyOutput == [num |-> 1200, den |-> 100]

ModelOutputs == { [num |-> 0, den |-> 100], [num |-> 3500, den |-> 100] }

----------------------------------------------------------------------------
(* HeavyRainDetector *)

\* a classification whose CRITICAL threshold on the current rainfall is strict
analyzeRainfallRiskStrict(currentRainfall, forecast6h) ==
    IF currentRainfall > 50 * Scale \/ forecast6h >= 100 * Scale THEN "CRITICAL"
    ELSE IF currentRainfall >= 30 * Scale \/ forecast6h >= 60 * Scale THEN "WARNING"
    ELSE IF currentRainfall >= 10 * Scale \/ forecast6h >= 30 * Scale THEN "WATCH"
    ELSE "SAFE"

\* a classification whose CRITICAL band on the current rainfall ends at 60 mm/h
analyzeRainfallRiskBand(currentRainfall, forecast6h) ==
    IF (currentRainfall >= 50 * Scale /\ currentRainfall < 60 * Scale)
       \/ forecast6h >= 100 * Scale THEN "CRITICAL"
    ELSE IF (currentRainfall >= 30 * Scale /\ currentRainfall < 50 * Scale)
            \/ forecast6h >= 60 * Scale THEN "WARNING"
    ELSE IF (currentRainfall >= 10 * Scale /\ currentRainfall < 30 * Scale)
            \/ forecast6h >= 30 * Scale THEN "WATCH"
    ELSE "SAFE"

analyzeRainfallRisk(currentRainfall, forecast6h) ==
    IF currentRainfall >= 50 * Scale \/ forecast6h >= 100 * Scale THEN "CRITICAL"
    ELSE IF currentRainfall >= 30 * Scale \/ forecast6h >= 60 * Scale THEN "WARNING"
    ELSE IF currentRainfall >= 10 * Scale \/ forecast6h >= 30 * Scale THEN "WATCH"
    ELSE "SAFE"

\* detectHeavyRain(currentRainfall): the level it leaves in alertLevel
detectHeavyRain(enabled, level, currentRainfall) ==
    IF ~enabled THEN level ELSE analyzeRainfallRisk(currentRainfall, 0)

----------------------------------------------------------------------------
(* Flood level mappings.  A flood percent that is a result is a rational   *)
(* [num, den]; a rainfall argument is in tenths of mm; the flood percent   *)
(* argument of calculateRainfall is a whole percent.                       *)

LessEq(p, q) == p.num * q.den <= q.num * p.den

\* Math.round(num / den) for den > 0: the nearest integer, a half goes up
Round(num, den) == (2 * num + den) \div (2 * den)

\* Math.min(100, Math.max(0, floodPercent))
ClampPercent(p) ==
    IF p.num < 0 THEN [num |-> 0, den |-> 1]
    ELSE IF p.num > 100 * p.den THEN [num |-> 100, den |-> 1]
    ELSE p

\* WeatherAPI.calculateFloodLevel(rainfall): rainfall in mm/h to flood percent
calculateFloodLevel(rainfall) ==
    IF rainfall = 0 THEN [num |-> 0, den |-> 1]
    ELSE IF rainfall < 10 * Scale THEN [num |-> rainfall * 3, den |-> Scale]
    ELSE IF rainfall < 30 * Scale
         THEN [num |-> 30 * Scale + (rainfall - 10 * Scale) * 2, den |-> Scale]
    ELSE IF rainfall < 50 * Scale
         THEN [num |-> 70 * Scale + (rainfall - 30 * Scale), den |-> Scale]
    ELSE [num |-> Min(100 * 2 * Scale, 90 * 2 * Scale + (rainfall - 50 * Scale)),
          den |-> 2 * Scale]

\* calculateRainfall with the last segment starting at 360 mm
calculateRainfallShifted(floodPercent) ==
    IF floodPercent <= 30 THEN Round(floodPercent * 100, 30)
    ELSE IF floodPercent <= 50 THEN Round(100 * 20 + (floodPercent - 30) * 100, 20)
    ELSE IF floodPercent <= 70 THEN Round(200 * 20 + (floodPercent - 50) * 150, 20)
    ELSE Round(360 * 30 + (floodPercent - 70) * 150, 30)

\* calculateRainfall with a last segment that falls
calculateRainfallFalling(floodPercent) ==
    IF floodPercent <= 30 THEN Round(floodPercent * 100, 30)
    ELSE IF floodPercent <= 50 THEN Round(100 * 20 + (floodPercent - 30) * 100, 20)
    ELSE IF floodPercent <= 70 THEN Round(200 * 20 + (floodPercent - 50) * 150, 20)
    ELSE Round(350 * 30 - (floodPercent - 70) * 150, 30)

\* calculateRainfall(floodPercent): flood percent to cumulative rainfall in mm
calculateRainfall(floodPercent) ==
    IF floodPercent <= 30 THEN Round(floodPercent * 100, 30)
    ELSE IF floodPercent <= 50 THEN Round(100 * 20 + (floodPercent - 30) * 100, 20)
    ELSE IF floodPercent <= 70 THEN Round(200 * 20 + (floodPercent - 50) * 150, 20)
    ELSE Round(350 * 30 + (floodPercent - 70) * 150, 30)

\* rainfallToFloodLevel with the second segment ending at 45 percent
rainfallToFloodLevelLow(rainfall) ==
    IF rainfall <= 0 THEN [num |-> 0, den |-> 1]
    ELSE IF rainfall >= 500 * Scale THEN [num |-> 100, den |-> 1]
    ELSE ClampPercent(
        IF rainfall <= 100 * Scale
        THEN [num |-> rainfall * 30, den |-> 100 * Scale]
        ELSE IF rainfall <= 200 * Scale
        THEN [num |-> 30 * 100 * Scale + (rainfall - 100 * Scale) * 15,
              den |-> 100 * Scale]
        ELSE IF rainfall <= 350 * Scale
        THEN [num |-> 50 * 150 * Scale + (rainfall - 200 * Scale) * 20,
              den |-> 150 * Scale]
        ELSE [num |-> 70 * 150 * Scale + (rainfall - 350 * Scale) * 30,
              den |-> 150 * Scale])

\* rainfallToFloodLevel(rainfall): cumulative rainfall in mm to flood percent
rainfallToFloodLevel(rainfall) ==
    IF rainfall <= 0 THEN [num |-> 0, den |-> 1]
    ELSE IF rainfall >= 500 * Scale THEN [num |-> 100, den |-> 1]
    ELSE ClampPercent(
        IF rainfall <= 100 * Scale
        THEN [num |-> rainfall * 30, den |-> 100 * Scale]
        ELSE IF rainfall <= 200 * Scale
        THEN [num |-> 30 * 100 * Scale + (rainfall - 100 * Scale) * 20,
              den |-> 100 * Scale]
        ELSE IF rainfall <= 350 * Scale
        THEN [num |-> 50 * 150 * Scale + (rainfall - 200 * Scale) * 20,
              den |-> 150 * Scale]
        ELSE [num |-> 70 * 150 * Scale + (rainfall - 350 * Scale) * 30,
              den |-> 150 * Scale])

----------------------------------------------------------------------------
(* RainfallPredictor: pure parts *)

\* Math.round(x * 10) for x = num/den >= 0, den > 0
RoundTenths(num, den) == (20 * num + den) \div (2 * den)

getPredictionLevel(p) ==
    IF p.num >= 50 * p.den THEN "CRITICAL"
    ELSE IF p.num >= 30 * p.den THEN "HIGH"
    ELSE IF p.num >= 10 * p.den THEN "MODERATE"
    ELSE "LOW"

\* slice(-n)
LastN(s, n) == IF Len(s) <= n THEN s ELSE SubSeq(s, Len(s) - n + 1, Len(s))

RECURSIVE DiffSum(_, _)
DiffSum(recent, i) ==
    IF i > Len(recent) THEN 0
    ELSE (recent[i].rainfall - recent[i - 1].rainfall) + DiffSum(recent, i + 1)

\* rainfall values 70.0, 12.4, 12.7, 70.0: in double precision
\* 0 + (12.4 - 70.0) + (12.7 - 12.4) + (70.0 - 12.7) is -7.1e-15, not 0
RoundoffWindow == << 700, 124, 127, 700 >>

\* the sign of the double-precision sum of the differences where their exact
\* sum is 0.  The sum is exact over whole mm/h values; the histories of this
\* model hold whole mm/h values or are RoundoffWindow.
SumError(recent) ==
    IF [i \in 1..Len(recent) |-> recent[i].rainfall] = RoundoffWindow THEN 0 - 1 ELSE 0

\* calculateTrend(): the rational sum / (recent.length - 1), in tenths of
\* mm/h; err is the sign of the computed sum where the exact one is 0
calculateTrend(hist) ==
    IF Len(hist) < 2 THEN [num |-> 0, den |-> 1, err |-> 0]
    ELSE LET recent == LastN(hist, 10)
         IN  [num |-> DiffSum(recent, 2), den |-> Len(recent) - 1,
              err |-> SumError(recent)]

trendLabel(trend) ==
    IF trend.num > 0 \/ (trend.num = 0 /\ trend.err > 0) THEN "increasing"
    ELSE IF trend.num < 0 \/ (trend.num = 0 /\ trend.err < 0) THEN "decreasing"
    ELSE "stable"

\* the raw value of fallbackPredict:
\*   rainfall*0.6 + humidity/100*30*0.2 + (30 - temperature)*0.1 + trend*5*0.1
fallbackValue(d, trend) ==
    [num |-> 6 * d.rainfall * trend.den + 6 * d.humidity * trend.den
             + 10 * (30 - d.temperature) * trend.den + 5 * trend.num,
     den |-> 100 * trend.den]

\* the rounding without Math.max(0, .)
roundedRainfallRaw(p) == RoundTenths(p.num, p.den)

roundedRainfall(p) == IF p.num <= 0 THEN 0 ELSE RoundTenths(p.num, p.den)

fallbackPredict(hist, d) ==
    LET trend == calculateTrend(hist)
        prediction == fallbackValue(d, trend)
    IN  [rainfall6h |-> roundedRainfall(prediction),
         confidence |-> Min(100, Len(hist) * 5),
         trend      |-> trendLabel(trend),
         level      |-> getPredictionLevel(prediction),
         modelType  |-> "Linear"]

\* the part of predict after await prediction.data()
lstmForecast(hist, predictedValue) ==
    LET trend == calculateTrend(hist)
    IN  [rainfall6h |-> roundedRainfall(predictedValue),
         confidence |-> Min(100, Len(hist) * 3),
         trend      |-> trendLabel(trend),
         level      |-> getPredictionLevel(predictedValue),
         modelType  |-> "LSTM"]

\* one row of a model input: [d.rainfall / 100, d.humidity / 100,
\* d.temperature / 40], each a rational (the rainfall of d is in tenths)
row(d) ==
    [rainfall    |-> [num |-> d.rainfall, den |-> 100 * Scale],
     humidity    |-> [num |-> d.humidity, den |-> 100],
     temperature |-> [num |-> d.temperature, den |-> 40]]

\* an input sequence made of the first entries of the history
inputSequenceOldest(hist, d) ==
    IF Len(hist) >= sequenceLength
    THEN [i \in 1..sequenceLength |-> row(hist[i])]
    ELSE [i \in 1..sequenceLength |-> row(d)]

\* the input sequence predict builds before the await
inputSequence(hist, d) ==
    IF Len(hist) >= sequenceLength
    THEN [i \in 1..sequenceLength |-> row(LastN(hist, sequenceLength)[i])]
    ELSE [i \in 1..sequenceLength |-> row(d)]

\* training pairs whose label is the last observation of the input
trainingPairsNoLead(hist) ==
    [i \in 1..(Len(hist) - sequenceLength) |->
        [input |-> [j \in 1..sequenceLength |-> row(hist[i + j - 1])],
         label |-> [num |-> hist[i + sequenceLength - 1].rainfall, den |-> 100 * Scale]]]

\* the training data and labels retrainModel builds: the loop
\* i = 0 .. length - sequenceLength - 1, counted from 1 here
trainingPairs(hist) ==
    [i \in 1..(Len(hist) - sequenceLength) |->
        [input |-> [j \in 1..sequenceLength |-> row(hist[i + j - 1])],
         label |-> [num |-> hist[i + sequenceLength].rainfall, den |-> 100 * Scale]]]

\* addHistoricalData: push, then keep the entries with timestamp > dayAgo
pushed(hist, d, t) ==
    Append(hist, [rainfall |-> d.rainfall, humidity |-> d.humidity,
                  temperature |-> d.temperature, timestamp |-> t,
                  lastUpdate |-> d.lastUpdate])

evicted(hist, t) == SelectSeq(hist, LAMBDA e : e.timestamp > t - DayUnits)

\* a retrain at every multiple of 10 from the floor on
retrainDueEveryTen(len) == len >= RetrainFloor /\ len % 10 = 0

\* the retrain condition of addHistoricalData
retrainDue(len) == len >= RetrainFloor /\ len % RetrainEvery = 0

\* nothing has been handed to updatePredictionUI yet
NoForecast ==
    [tick |-> 0, rain |-> 0, risk |-> "SAFE", params |-> [gen |-> 0, partial |-> FALSE],
     ready |-> FALSE, completed |-> 0, training |-> "none",
     rainfall6h |-> 0, confidence |-> 0, trend |-> "stable", level |-> "LOW",
     modelType |-> "none", size |-> 0]

----------------------------------------------------------------------------
(* State after main.js has run top to bottom: the predictor's constructor  *)
(* has started the initial training (initializeLSTMModel is suspended at   *)
(* await model.fit) and weatherAPI.startAutoUpdate(updateWeatherUI) has    *)
(* started the first fetch and the interval timer.                         *)

\* new WeatherAPI() followed by startAutoUpdate(updateWeatherUI)
ConstructedWeatherAPI ==
    /\ now = 0
    /\ autoUpdate = TRUE
    /\ intervalId = 1
    /\ timers = { [id |-> 1, due |-> 1] }
    /\ nextTimer = 2
    /\ currentData = [rainfall |-> 0, humidity |-> 0, temperature |-> 0,
                      lastUpdate |-> Null]
    /\ fetches = 1
    /\ lastFetch = "none"
    /\ log = [appends |-> 0, retrainCalls |-> 0, calls |-> 0, completed |-> 0,
              failed |-> 0, stopped |-> FALSE, evictions |-> 0,
              lastRetrainAt |-> 0, retrainGap |-> 0]

\* new HeavyRainDetector(scene)
ConstructedDetector ==
    /\ detectionEnabled = TRUE
    /\ alertLevel = "SAFE"
    /\ warningMarkers = << >>

\* new RainfallPredictor()
ConstructedPredictor ==
    /\ historicalData = << >>
    /\ isModelReady = FALSE
    /\ fit = "initial"
    /\ weights = [gen |-> 0, partial |-> FALSE]
    /\ pending = << >>
    /\ displayed = NoForecast
    /\ rejections = 0

\* no function has been called directly
NoProbe == [fn |-> "none", x |-> 0, y |-> 0, z |-> 0, rx |-> 0, ry |-> 0]

Init ==
    /\ ConstructedWeatherAPI
    /\ ConstructedDetector
    /\ ConstructedPredictor
    /\ probe = NoProbe

----------------------------------------------------------------------------
(* WeatherAPI *)

\* startAutoUpdate(callback)
StartAutoUpdate ==
    /\ log.calls < MaxClicks
    /\ fetches < MaxFetches
    /\ nextTimer <= MaxTimers + 1
    /\ autoUpdate' = TRUE
    /\ fetches' = fetches + 1
    /\ intervalId' = nextTimer
    /\ timers' = timers \cup { [id |-> nextTimer, due |-> now + 1] }
    /\ nextTimer' = nextTimer + 1
    /\ log' = [log EXCEPT !.calls = @ + 1, !.stopped = FALSE]
    /\ UNCHANGED << now, currentData, detectionEnabled, alertLevel, historicalData,
                    isModelReady, fit, weights, pending, displayed, rejections,
                    warningMarkers, lastFetch, probe >>

\* stopAutoUpdate()
StopAutoUpdate ==
    /\ log.calls < MaxClicks
    /\ autoUpdate' = FALSE
    /\ timers' = IF intervalId # 0 THEN { t \in timers : t.id # intervalId } ELSE timers
    /\ log' = [log EXCEPT !.calls = @ + 1, !.stopped = TRUE]
    /\ UNCHANGED << now, intervalId, nextTimer, currentData, fetches, detectionEnabled,
                    alertLevel, historicalData, isModelReady, fit, weights, pending,
                    displayed, rejections,
                    warningMarkers, lastFetch, probe >>

\* the click handler of the toggleAutoUpdate button
ToggleClick == IF autoUpdate THEN StopAutoUpdate ELSE StartAutoUpdate

\* the setInterval callback of startAutoUpdate
TimerFire ==
    \E t \in timers :
        /\ t.due = now
        /\ autoUpdate => fetches < MaxFetches
        /\ timers' = (timers \ {t}) \cup { [t EXCEPT !.due = @ + 1] }
        /\ fetches' = IF autoUpdate THEN fetches + 1 ELSE fetches
        /\ UNCHANGED << now, autoUpdate, intervalId, nextTimer, currentData,
                        detectionEnabled, alertLevel, historicalData, isModelReady, fit,
                        weights, pending, displayed, rejections, log,
                    warningMarkers, lastFetch, probe >>

\* one update interval passes; every timer due has fired, and at most
\* maxLag fetches are still in flight
Advance(maxTime, maxLag) ==
    /\ timers # {}
    /\ fetches <= maxLag
    /\ \A t \in timers : t.due > now
    /\ now < maxTime
    /\ now' = now + 1
    /\ UNCHANGED << autoUpdate, intervalId, timers, nextTimer, currentData, fetches,
                    detectionEnabled, alertLevel, historicalData, isModelReady, fit,
                    weights, pending, displayed, rejections, log,
                    warningMarkers, lastFetch, probe >>

\* nothing is scheduled or in flight and more than a day passes
IdleDay(maxTime) ==
    /\ timers = {}
    /\ fetches = 0
    /\ pending = << >>
    /\ now + DayUnits + 1 <= maxTime
    /\ now' = now + DayUnits + 1
    /\ UNCHANGED << autoUpdate, intervalId, timers, nextTimer, currentData, fetches,
                    detectionEnabled, alertLevel, historicalData, isModelReady, fit,
                    weights, pending, displayed, rejections, log,
                    warningMarkers, lastFetch, probe >>

\* what fetchRealData resolves with: the API answers with resultCode '00'
\* ("ok": currentData is overwritten in place, here with all of RN1, T1H and
\* REH present), with another result code ("nodata": currentData is
\* returned as it is), or the request throws ("throw": generateMockData)
fetchRealData(outcome, obs) ==
    IF outcome = "nodata" THEN currentData
    ELSE [rainfall |-> obs.rainfall, humidity |-> obs.humidity,
          temperature |-> obs.temperature, lastUpdate |-> now]

----------------------------------------------------------------------------
(* RainfallPredictor: training *)

\* model.fit called on the model: a model that is training refuses a second fit
fitStarted(current) == IF current = "none" THEN "retrain" ELSE current

fitRefused(current) == current # "none"

\* model.fit applies a batch of weight updates in place
FitStep ==
    /\ fit # "none"
    /\ ~weights.partial
    /\ weights' = [weights EXCEPT !.partial = TRUE]
    /\ UNCHANGED << now, autoUpdate, intervalId, timers, nextTimer, currentData, fetches,
                    detectionEnabled, alertLevel, historicalData, isModelReady, fit,
                    pending, displayed, rejections, log,
                    warningMarkers, lastFetch, probe >>

\* model.fit resolves: preTrainWithMockData and initializeLSTMModel set
\* isModelReady; retrainModel only reports completion
FitDone ==
    /\ fit # "none"
    /\ weights' = [gen |-> weights.gen + 1, partial |-> FALSE]
    /\ isModelReady' = IF fit = "initial" THEN TRUE ELSE isModelReady
    /\ fit' = "none"
    /\ log' = [log EXCEPT !.completed = @ + 1]
    /\ UNCHANGED << now, autoUpdate, intervalId, timers, nextTimer, currentData, fetches,
                    detectionEnabled, alertLevel, historicalData, pending, displayed,
                    rejections,
                    warningMarkers, lastFetch, probe >>

\* a failed training that takes the predictor back to the untrained state
FitFailResets ==
    /\ fit # "none"
    /\ fit' = "none"
    /\ isModelReady' = FALSE
    /\ rejections' = rejections + 1
    /\ log' = [log EXCEPT !.failed = @ + 1]
    /\ UNCHANGED << now, autoUpdate, intervalId, timers, nextTimer, currentData, fetches,
                    detectionEnabled, alertLevel, historicalData, weights, pending,
                    displayed,
                    warningMarkers, lastFetch, probe >>

\* model.fit rejects: the rejection leaves preTrainWithMockData and
\* initializeLSTMModel, or retrainModel, and nobody catches it
FitFail ==
    /\ fit # "none"
    /\ fit' = "none"
    /\ rejections' = rejections + 1
    /\ log' = [log EXCEPT !.failed = @ + 1]
    /\ UNCHANGED << now, autoUpdate, intervalId, timers, nextTimer, currentData, fetches,
                    detectionEnabled, alertLevel, historicalData, isModelReady, weights,
                    pending, displayed,
                    warningMarkers, lastFetch, probe >>

----------------------------------------------------------------------------
(* The tick *)

\* updateWeatherUI(data): detectHeavyRain, addHistoricalData (with the
\* retrainModel call it may make) and predict up to its first await.  A
\* predict that takes the fallback path has no await: its promise is
\* resolved on return and updatePredictionUI runs in the same microtask
\* checkpoint.  On the trained path model.predict runs at the call, on the
\* weights of that moment, giving `out`; the rest runs after the await.
UpdateWeatherUI(data, out) ==
    LET level == detectHeavyRain(detectionEnabled, alertLevel, data.rainfall)
        hist == evicted(pushed(historicalData, data, now), now)
        retrain == retrainDue(Len(hist))
        fits == retrain /\ Len(hist) >= sequenceLength + 1
        fit1 == IF fits THEN fitStarted(fit) ELSE fit
        call == [tick |-> log.appends + 1, rain |-> data.rainfall, risk |-> level,
                 params |-> weights, ready |-> isModelReady,
                 completed |-> log.completed, training |-> fit1]
    IN  /\ alertLevel' = level
        /\ warningMarkers' = IF detectionEnabled THEN << >> ELSE warningMarkers
        /\ historicalData' = hist
        /\ fit' = fit1
        /\ rejections' = IF fits /\ fitRefused(fit) THEN rejections + 1 ELSE rejections
        /\ IF ~isModelReady
           THEN /\ displayed' = call @@ fallbackPredict(hist, data)
                                    @@ [size |-> Len(hist)]
                /\ pending' = pending
           ELSE /\ pending' = Append(pending,
                                     call @@ [out |-> out,
                                              input |-> inputSequence(hist, data)])
                /\ displayed' = displayed
        /\ log' = [log EXCEPT !.appends = @ + 1,
                              !.retrainCalls = IF retrain THEN @ + 1 ELSE @,
                              !.lastRetrainAt = IF retrain THEN log.appends + 1 ELSE @,
                              !.retrainGap = IF retrain /\ log.retrainCalls > 0
                                             THEN log.appends + 1 - log.lastRetrainAt
                                             ELSE @,
                              !.failed = IF fits /\ fitRefused(fit) THEN @ + 1 ELSE @,
                              !.evictions = @ + (Len(historicalData) + 1 - Len(hist))]
        /\ UNCHANGED << now, autoUpdate, intervalId, timers, nextTimer,
                        detectionEnabled, isModelReady, weights, probe >>

\* a fetchRealData promise resolves and its .then(callback) runs the tick
FetchResolve(outcome, obs, out, maxAppends) ==
    /\ fetches > 0
    /\ log.appends < maxAppends
    /\ isModelReady => Len(pending) < MaxPending
    /\ \A i \in 1..Len(pending) : log.appends - pending[i].tick < MaxPending - 1
    /\ LET data == fetchRealData(outcome, obs)
       IN  /\ currentData' = data
           /\ fetches' = fetches - 1
           /\ lastFetch' = outcome
           /\ UpdateWeatherUI(data, out)

\* prediction.data() of one of the suspended predict calls resolves: predict
\* reads the trend and the history size of this moment, returns, and
\* updatePredictionUI shows the forecast.  The calls await separate tensors
\* and the source puts no order on them: which read resolves first is
\* TensorFlow.js's doing, so any of the suspended calls may be the one.
PredictResolve ==
    /\ \E i \in 1..Len(pending) :
          LET p == pending[i]
              call == [tick |-> p.tick, rain |-> p.rain, risk |-> p.risk,
                       params |-> p.params, ready |-> p.ready,
                       completed |-> p.completed, training |-> p.training]
          IN  /\ displayed' = call @@ lstmForecast(historicalData, p.out)
                                    @@ [size |-> Len(historicalData)]
              /\ pending' = SubSeq(pending, 1, i - 1)
                               \o SubSeq(pending, i + 1, Len(pending))
    /\ UNCHANGED << now, autoUpdate, intervalId, timers, nextTimer, currentData, fetches,
                    detectionEnabled, alertLevel, historicalData, isModelReady, fit,
                    weights, rejections, log,
                    warningMarkers, lastFetch, probe >>

----------------------------------------------------------------------------
(* Direct calls.  The argument of a call is in probe (x and y, and z for   *)
(* the forecast of analyzeRainfallRisk or the model output of predict);    *)
(* a call applies the function to x and to y and records the two results.  *)

\* weatherAPI.calculateFloodLevel(x) and (y)
CallCalculateFloodLevel ==
    /\ probe.fn = "none"
    /\ probe' = [probe EXCEPT !.fn = "calculateFloodLevel",
                              !.rx = calculateFloodLevel(probe.x),
                              !.ry = calculateFloodLevel(probe.y)]
    /\ UNCHANGED << now, autoUpdate, intervalId, timers, nextTimer, currentData, fetches,
                    detectionEnabled, alertLevel, historicalData, isModelReady, fit,
                    weights, pending, displayed, rejections, log, warningMarkers,
                    lastFetch >>

\* calculateRainfall(x) and (y)
CallCalculateRainfall ==
    /\ probe.fn = "none"
    /\ probe' = [probe EXCEPT !.fn = "calculateRainfall",
                              !.rx = calculateRainfall(probe.x),
                              !.ry = calculateRainfall(probe.y)]
    /\ UNCHANGED << now, autoUpdate, intervalId, timers, nextTimer, currentData, fetches,
                    detectionEnabled, alertLevel, historicalData, isModelReady, fit,
                    weights, pending, displayed, rejections, log, warningMarkers,
                    lastFetch >>

\* rainfallToFloodLevel(x) and (y)
CallRainfallToFloodLevel ==
    /\ probe.fn = "none"
    /\ probe' = [probe EXCEPT !.fn = "rainfallToFloodLevel",
                              !.rx = rainfallToFloodLevel(probe.x),
                              !.ry = rainfallToFloodLevel(probe.y)]
    /\ UNCHANGED << now, autoUpdate, intervalId, timers, nextTimer, currentData, fetches,
                    detectionEnabled, alertLevel, historicalData, isModelReady, fit,
                    weights, pending, displayed, rejections, log, warningMarkers,
                    lastFetch >>

\* rainfallToFloodLevel(calculateRainfall(x)): rx is the rainfall, ry the percent
CallRoundTrip ==
    /\ probe.fn = "none"
    /\ probe' = [probe EXCEPT !.fn = "roundTrip",
                              !.rx = calculateRainfall(probe.x),
                              !.ry = rainfallToFloodLevel(calculateRainfall(probe.x) * Scale)]
    /\ UNCHANGED << now, autoUpdate, intervalId, timers, nextTimer, currentData, fetches,
                    detectionEnabled, alertLevel, historicalData, isModelReady, fit,
                    weights, pending, displayed, rejections, log, warningMarkers,
                    lastFetch >>

\* heavyRainDetector.analyzeRainfallRisk(x, z), then (y, z): each call
\* stores its level in this.alertLevel before it returns it
CallAnalyzeRainfallRisk ==
    /\ probe.fn = "none"
    /\ probe' = [probe EXCEPT !.fn = "analyzeRainfallRisk",
                              !.rx = analyzeRainfallRisk(probe.x, probe.z),
                              !.ry = analyzeRainfallRisk(probe.y, probe.z)]
    /\ alertLevel' = analyzeRainfallRisk(probe.y, probe.z)
    /\ UNCHANGED << now, autoUpdate, intervalId, timers, nextTimer, currentData, fetches,
                    detectionEnabled, historicalData, isModelReady, fit,
                    weights, pending, displayed, rejections, log, warningMarkers,
                    lastFetch >>

\* heavyRainDetector.toggle(): flips detectionEnabled and, when that
\* disables the detection, clearMarkers()
Toggle ==
    /\ detectionEnabled' = ~detectionEnabled
    /\ warningMarkers' = IF detectionEnabled THEN << >> ELSE warningMarkers
    /\ UNCHANGED << now, autoUpdate, intervalId, timers, nextTimer, currentData, fetches,
                    alertLevel, historicalData, isModelReady, fit,
                    weights, pending, displayed, rejections, log, lastFetch, probe >>

\* heavyRainDetector.createWarningMarker(position, intensity, level): the
\* new mesh is pushed to warningMarkers
CreateWarningMarker ==
    /\ Len(warningMarkers) < MaxMarkers
    /\ warningMarkers' = Append(warningMarkers, "marker")
    /\ UNCHANGED << now, autoUpdate, intervalId, timers, nextTimer, currentData, fetches,
                    detectionEnabled, alertLevel, historicalData, isModelReady, fit,
                    weights, pending, displayed, rejections, log, lastFetch, probe >>

\* rainfallPredictor.predict(x) up to its return or its await; z is the
\* value model.predict(...) * 100 gives on the trained path
CallPredict ==
    /\ probe.fn = "none"
    /\ probe' = [probe EXCEPT !.fn = "predict"]
    /\ LET call == [tick |-> log.appends, rain |-> probe.x.rainfall, risk |-> alertLevel,
                    params |-> weights, ready |-> isModelReady,
                    completed |-> log.completed, training |-> fit]
       IN  IF ~isModelReady
           THEN /\ displayed' = call @@ fallbackPredict(historicalData, probe.x)
                                    @@ [size |-> Len(historicalData)]
                /\ pending' = pending
           ELSE /\ pending' = Append(pending,
                                     call @@ [out |-> probe.z,
                                              input |-> inputSequence(historicalData,
                                                                      probe.x)])
                /\ displayed' = displayed
    /\ UNCHANGED << now, autoUpdate, intervalId, timers, nextTimer, currentData, fetches,
                    detectionEnabled, alertLevel, historicalData, isModelReady, fit,
                    weights, rejections, log, warningMarkers, lastFetch >>

\* rainfallPredictor.retrainModel() up to its await this.model.fit: rx is
\* the training set it hands to model.fit
CallRetrainModel ==
    /\ probe.fn = "none"
    /\ LET fits == Len(historicalData) >= sequenceLength + 1
       IN  /\ probe' = [probe EXCEPT !.fn = "retrainModel",
                                     !.rx = IF fits THEN trainingPairs(historicalData)
                                            ELSE << >>]
           /\ fit' = IF fits THEN fitStarted(fit) ELSE fit
           /\ rejections' = IF fits /\ fitRefused(fit) THEN rejections + 1
                             ELSE rejections
           /\ log' = [log EXCEPT !.retrainCalls = @ + 1,
                                 !.failed = IF fits /\ fitRefused(fit) THEN @ + 1 ELSE @]
    /\ UNCHANGED << now, autoUpdate, intervalId, timers, nextTimer, currentData, fetches,
                    detectionEnabled, alertLevel, historicalData, isModelReady,
                    weights, pending, displayed, warningMarkers, lastFetch >>

----------------------------------------------------------------------------
(* Specifications *)

Outcomes == {"ok", "nodata", "throw"}

\* the page as wired: timer, toggle button, fetches, trainings
Next ==
    \/ ToggleClick
    \/ TimerFire
    \/ Advance(MaxTime, MaxFetches)
    \/ IdleDay(MaxTime)
    \/ \E outcome \in Outcomes, out \in ModelOutputs :
          \E obs \in (IF outcome = "throw" THEN MockObservations ELSE Observations) :
             FetchResolve(outcome, obs, out, MaxAppends)
    \/ PredictResolve
    \/ FitStep
    \/ FitDone
    \/ FitFail

Spec == Init /\ [][Next]_vars

\* the WeatherAPI object driven through its two methods in any order
NextApi ==
    \/ StartAutoUpdate
    \/ StopAutoUpdate
    \/ TimerFire
    \/ Advance(ApiTime, MaxFetches)
    \/ \E outcome \in Outcomes :
          FetchResolve(outcome, SteadyObservation, SteadyOutput, ApiAppends)
    \/ PredictResolve
    \/ FitDone
    \/ FitFail

SpecApi == Init /\ [][NextApi]_vars

\* the page left alone: the timer fires every interval, the API answers,
\* every observation is the same
NextSteady ==
    \/ TimerFire
    \/ Advance(SteadyTime, 0)
    \/ FetchResolve("ok", SteadyObservation, SteadyOutput, SteadyAppends)
    \/ PredictResolve
    \/ FitStep
    \/ FitDone
    \/ FitFail

SpecSteady == Init /\ [][NextSteady]_vars

\* the arguments of the direct calls of the mappings: every value from
\* ArgBelow under 0 to ArgMax, and the values around the multiples of 50 mm
\* up to RainMax
MapperArgs ==
    ((0 - ArgBelow)..ArgMax)
        \cup { v \in ArgMax..RainMax : v % (50 * Scale) \in {0, 1, 50 * Scale - 1} }

InitMapper ==
    /\ ConstructedWeatherAPI
    /\ ConstructedDetector
    /\ ConstructedPredictor
    /\ \E x \in MapperArgs, gap \in ArgGaps :
          probe = [NoProbe EXCEPT !.x = x, !.y = x + gap]

\* the mappings called directly
NextMapper ==
    \/ CallCalculateFloodLevel
    \/ CallCalculateRainfall
    \/ CallRainfallToFloodLevel
    \/ CallRoundTrip

SpecMapper == InitMapper /\ [][NextMapper]_vars

\* rainfall arguments around the multiples of 10 mm/h, forecast arguments
\* around the thresholds
RiskArgs ==
    { v \in 0..MaxRainfall : v % (10 * Scale) \in {0, 1, 10 * Scale - 1} }
        \cup { 55 * Scale }

ForecastArgs == {0} \cup { t * Scale - d : t \in {30, 60, 100}, d \in {0, 1} }

AlertLevels == {"SAFE", "WATCH", "WARNING", "CRITICAL"}

\* a new detector, or one in which an earlier classification has left its
\* level
InitRisk ==
    /\ ConstructedWeatherAPI
    /\ ConstructedPredictor
    /\ detectionEnabled = TRUE
    /\ alertLevel \in AlertLevels
    /\ warningMarkers = << >>
    /\ \E x \in RiskArgs, y \in RiskArgs, z \in ForecastArgs :
          probe = [NoProbe EXCEPT !.x = x, !.y = y, !.z = z]

\* the methods of the detector called directly
NextRisk ==
    \/ CallAnalyzeRainfallRisk
    \/ Toggle
    \/ CreateWarningMarker

SpecRisk == InitRisk /\ [][NextRisk]_vars

\* a history of n entries taken every interval up to now: rainfall a, and b
\* in the last entry
HistoryOf(n, a, b) ==
    [i \in 1..n |-> [rainfall |-> IF i = n THEN b ELSE a, humidity |-> 60 + (i % 30),
                     temperature |-> 24, timestamp |-> i - n, lastUpdate |-> i - n]]

\* a history of four entries whose rainfall values are RoundoffWindow
RoundoffHistory ==
    [i \in 1..Len(RoundoffWindow) |->
        [rainfall |-> RoundoffWindow[i], humidity |-> 70, temperature |-> 24,
         timestamp |-> i - Len(RoundoffWindow), lastUpdate |-> i - Len(RoundoffWindow)]]

\* observations predict can be handed, those of a parsed API answer included
PredictObservations ==
    Observations \cup { [rainfall |-> 0, humidity |-> 0, temperature |-> 40],
                        [rainfall |-> 86, humidity |-> 80, temperature |-> 30] }

\* raw values of model.predict(...)*100, one of them just under a threshold
PredictOutputs == ModelOutputs \cup { [num |-> 996, den |-> 100] }

InitPredict ==
    /\ ConstructedWeatherAPI
    /\ ConstructedDetector
    /\ pending = << >>
    /\ displayed = NoForecast
    /\ rejections = 0
    /\ isModelReady \in BOOLEAN
    /\ fit = (IF isModelReady THEN "none" ELSE "initial")
    /\ weights = [gen |-> IF isModelReady THEN 1 ELSE 0, partial |-> FALSE]
    /\ \/ \E n \in 0..MaxHistory, a \in {0, 550}, b \in {0, 550} :
             historicalData = HistoryOf(n, a, b)
       \/ historicalData = RoundoffHistory
    /\ \E d \in PredictObservations, out \in PredictOutputs :
          probe = [NoProbe EXCEPT !.x = d, !.z = out]

\* predict and retrainModel called directly
NextPredict ==
    \/ CallPredict
    \/ PredictResolve
    \/ CallRetrainModel

SpecPredict == InitPredict /\ [][NextPredict]_vars

----------------------------------------------------------------------------
(* Claims *)

\* C1 (as stated): from an empty history and without eviction, appends 1 to
\* 69 call retrainModel not once and append 70 has called it exactly once.
C1_FirstRetrainAt70 ==
    log.evictions = 0 =>
        /\ log.appends <= 69 => log.retrainCalls = 0
        /\ log.appends = 70 => log.retrainCalls = 1

\* C1 (amended): from an empty history and without eviction, appends 1 to 59
\* call retrainModel not once and the 60th append makes the first call;
\* no second call comes before the 80th.
C1_FirstRetrainAt60 ==
    log.evictions = 0 =>
        /\ log.appends <= 59 => log.retrainCalls = 0
        /\ (log.appends >= 60 /\ log.appends <= 79) => log.retrainCalls = 1

C1_Witness == log.evictions = 0 /\ log.appends = 60 /\ log.retrainCalls = 1

\* C2: a forecast whose predict call ran while a retrain's model.fit was in
\* progress was computed on the parameters of a completed training, never
\* on parameters the running fit had already changed.
C2_PredictOnCompletedParams ==
    /\ \A i \in 1..Len(pending) :
          pending[i].training = "retrain" => ~pending[i].params.partial
    /\ (displayed.modelType = "LSTM" /\ displayed.training = "retrain")
          => ~displayed.params.partial

\* C3: at most one tick is in flight: while the forecast of a tick has not
\* been handed to updatePredictionUI no other tick has appended and started
\* a predict.
C3_OneTickInFlight == Len(pending) <= 1

\* C4: whatever the sequence of startAutoUpdate and stopAutoUpdate calls, at
\* most one interval timer is active.
C4_AtMostOneTimer == Cardinality(timers) <= 1

\* C5: between a stopAutoUpdate and the next startAutoUpdate the tick
\* callback does not run and nothing is appended to the history.
C5_NoTickAfterStop == [][log.stopped => log.appends' = log.appends]_vars

\* C6: every observation in historicalData was captured within the 24 hours
\* before the latest append, and the slice of the 10 most recent entries
\* holds at most 10 entries in chronological order.
C6_CapturedWithinDay ==
    LET n == Len(historicalData)
        latest == historicalData[n].timestamp
        recent == LastN(historicalData, sequenceLength)
    IN  n > 0 =>
          /\ \A i \in 1..n :
                /\ historicalData[i].lastUpdate # Null
                /\ historicalData[i].lastUpdate > latest - DayUnits
                /\ historicalData[i].lastUpdate <= latest
          /\ Len(recent) <= sequenceLength
          /\ \A i \in 1..(Len(recent) - 1) :
                recent[i].timestamp <= recent[i + 1].timestamp

\* C7: the risk level of a tick is the class of the tick's rainfall and of
\* the rainfall6h of the tick's forecast.
C7_RiskUsesForecast ==
    displayed.tick > 0 =>
        displayed.risk = analyzeRainfallRisk(displayed.rain, displayed.rainfall6h)

\* C8: a model.fit that rejects leaves no promise rejection unhandled.
C8_NoUnhandledRejection == log.failed > 0 => rejections = 0

\* C9: once isModelReady is true it stays true.
C9_ReadyStaysReady == [][isModelReady => isModelReady']_vars

C9_Witness == isModelReady /\ log.retrainCalls > 0 /\ log.failed > 0

\* C10: a forecast is the fallback one exactly when isModelReady was false at
\* the predict call, and it is the trained one whenever a training had
\* completed before the call.
C10_TrainedOnceTrained ==
    displayed.tick > 0 =>
        /\ (displayed.modelType = "Linear") <=> ~displayed.ready
        /\ displayed.completed > 0 => displayed.modelType = "LSTM"

\* C11: for every observation and every history, the empty one included, the
\* forecast predict returns, on the trained or on the fallback path, has
\* rainfall6h >= 0 and a confidence between 0 and 100.
C11_ForecastInRange ==
    displayed.modelType # "none" =>
        /\ displayed.rainfall6h >= 0
        /\ displayed.confidence >= 0
        /\ displayed.confidence <= 100

C11_Witness ==
    /\ probe.fn = "predict"
    /\ displayed.modelType = "Linear"
    /\ fallbackValue(probe.x, calculateTrend(historicalData)).num < 0
    /\ Len(historicalData) * 5 > 100
    /\ displayed.rainfall6h = 0
    /\ displayed.confidence = 100

\* C12: a fetchRealData whose fetch fails (the request throws, the answer
\* cannot be parsed, the API reports a result code other than '00') resolves
\* with an observation generated at that moment, and the tick callback runs.
C12_FailureYieldsSynthetic ==
    [][(fetches' < fetches /\ lastFetch' \in {"nodata", "throw"}) =>
          /\ currentData'.lastUpdate = now
          /\ log'.appends = log.appends + 1]_vars

\* C13: analyzeRainfallRisk returns CRITICAL if currentRainfall >= 50 or
\* forecast6h >= 100, else WARNING if currentRainfall >= 30 or forecast6h >=
\* 60, else WATCH if currentRainfall >= 10 or forecast6h >= 30, else SAFE;
\* (55, 0) gives CRITICAL and (0, 0) gives SAFE.
C13_ThresholdTable ==
    LET critical(c, f) == c >= 50 * Scale \/ f >= 100 * Scale
        warning(c, f) == ~critical(c, f) /\ (c >= 30 * Scale \/ f >= 60 * Scale)
        watch(c, f) == /\ ~critical(c, f)
                       /\ ~warning(c, f)
                       /\ (c >= 10 * Scale \/ f >= 30 * Scale)
        agrees(level, c, f) ==
            /\ level = "CRITICAL" <=> critical(c, f)
            /\ level = "WARNING" <=> warning(c, f)
            /\ level = "WATCH" <=> watch(c, f)
            /\ level = "SAFE" <=> ~(critical(c, f) \/ warning(c, f) \/ watch(c, f))
    IN  probe.fn = "analyzeRainfallRisk" =>
            /\ agrees(probe.rx, probe.x, probe.z)
            /\ agrees(probe.ry, probe.y, probe.z)
            /\ (probe.x = 55 * Scale /\ probe.z = 0) => probe.rx = "CRITICAL"
            /\ (probe.x = 0 /\ probe.z = 0) => probe.rx = "SAFE"

C13_Witness ==
    /\ probe.fn = "analyzeRainfallRisk"
    /\ probe.x = 55 * Scale
    /\ probe.y = 0
    /\ probe.z = 0
    /\ probe.rx = "CRITICAL"
    /\ probe.ry = "SAFE"

\* C14: a call of analyzeRainfallRisk changes no state: alertLevel,
\* warningMarkers and detectionEnabled are after the call what they were
\* before it.
C14_ClassifyChangesNothing ==
    [][(probe.fn = "none" /\ probe'.fn = "analyzeRainfallRisk") =>
          /\ alertLevel' = alertLevel
          /\ warningMarkers' = warningMarkers
          /\ detectionEnabled' = detectionEnabled]_vars

\* C15: with forecast6h fixed, a larger currentRainfall never gets a lower
\* level from analyzeRainfallRisk, in the order SAFE < WATCH < WARNING <
\* CRITICAL.
C15_ClassifyMonotone ==
    LET rank(level) == CASE level = "SAFE" -> 0
                         [] level = "WATCH" -> 1
                         [] level = "WARNING" -> 2
                         [] level = "CRITICAL" -> 3
    IN  (probe.fn = "analyzeRainfallRisk" /\ probe.x <= probe.y)
            => rank(probe.rx) <= rank(probe.ry)

C15_Witness ==
    /\ probe.fn = "analyzeRainfallRisk"
    /\ probe.x < probe.y
    /\ probe.z = 30 * Scale
    /\ probe.rx = "WATCH"
    /\ probe.ry = "WARNING"

\* C16: for every rainfall, negative ones included, calculateFloodLevel
\* returns a flood percent in [0, 100], and a negative rainfall gives 0.
C16_FloodLevelInRange ==
    probe.fn = "calculateFloodLevel" =>
        /\ probe.rx.num >= 0
        /\ probe.rx.num <= 100 * probe.rx.den
        /\ probe.x < 0 => probe.rx.num = 0

\* C17: an input outside the breakpoint range is clamped, never extrapolated:
\* calculateRainfall returns 0 for a flood percent below 0 and 500 for one
\* above 100; rainfallToFloodLevel returns 0 for a rainfall below 0 and 100
\* for one above 500.
C17_OutOfRangeClamped ==
    /\ probe.fn = "calculateRainfall" =>
          /\ probe.x < 0 => probe.rx = 0
          /\ probe.x > 100 => probe.rx = 500
    /\ probe.fn = "rainfallToFloodLevel" =>
          /\ probe.x < 0 => probe.rx.num = 0
          /\ probe.x > 500 * Scale => probe.rx.num = 100 * probe.rx.den

\* C18: at each breakpoint p of {0, 30, 50, 70, 100}, calculateRainfall(p)
\* given to rainfallToFloodLevel returns p.
C18_RoundTripAtBreakpoints ==
    (probe.fn = "roundTrip" /\ probe.x \in {0, 30, 50, 70, 100})
        => probe.ry.num = probe.x * probe.ry.den

C18_Witness ==
    /\ probe.fn = "roundTrip"
    /\ probe.x = 50
    /\ probe.rx = 200
    /\ probe.ry.num = 50 * probe.ry.den

\* C19: calculateFloodLevel, rainfallToFloodLevel and calculateRainfall are
\* monotone non-decreasing over their whole input domain, across the segment
\* boundaries too.
C19_MappingsMonotone ==
    /\ (probe.fn \in {"calculateFloodLevel", "rainfallToFloodLevel"}
           /\ probe.x <= probe.y) => LessEq(probe.rx, probe.ry)
    /\ (probe.fn = "calculateRainfall" /\ probe.x <= probe.y)
          => probe.rx <= probe.ry

C19_Witness ==
    /\ probe.fn = "rainfallToFloodLevel"
    /\ probe.x < 200 * Scale
    /\ probe.y > 200 * Scale
    /\ probe.y - probe.x = 7
    /\ LessEq(probe.rx, probe.ry)
    /\ ~LessEq(probe.ry, probe.rx)

\* C20: for every flood percent p in [0, 100], calculateRainfall(p) is the
\* linear interpolation through the anchors (0,0), (30,100), (50,200),
\* (70,350), (100,500), rounded to the nearest integer; calculateRainfall(72)
\* is 360.
C20_InterpolatesAnchors ==
    LET anchors == << [p |-> 0, r |-> 0], [p |-> 30, r |-> 100], [p |-> 50, r |-> 200],
                      [p |-> 70, r |-> 350], [p |-> 100, r |-> 500] >>
        between(i, p) ==
            LET lo == anchors[i]
                hi == anchors[i + 1]
            IN  Round(lo.r * (hi.p - lo.p) + (p - lo.p) * (hi.r - lo.r), hi.p - lo.p)
    IN  (probe.fn = "calculateRainfall" /\ probe.x >= 0 /\ probe.x <= 100) =>
            /\ \A i \in 1..(Len(anchors) - 1) :
                  (anchors[i].p <= probe.x /\ probe.x <= anchors[i + 1].p)
                      => probe.rx = between(i, probe.x)
            /\ probe.x = 72 => probe.rx = 360

C20_Witness ==
    /\ probe.fn = "calculateRainfall"
    /\ probe.x = 72
    /\ probe.rx = 360

\* C21: after the first retrain every further retrain is triggered when
\* exactly 20 observations have been appended since the previous trigger,
\* with or without eviction: two successive triggers are 20 appends apart,
\* and 20 appends never go by without one.
C21_RetrainEveryTwenty ==
    /\ log.retrainCalls >= 2 => log.retrainGap = RetrainEvery
    /\ log.retrainCalls >= 1 => log.appends - log.lastRetrainAt < RetrainEvery

\* C22: retrainModel is started only when the initial training has
\* completed (isModelReady), never while the predictor is untrained.
C22_RetrainOnlyWhenReady ==
    [][log'.retrainCalls > log.retrainCalls => isModelReady]_vars

\* C23: the level of a forecast is the threshold class of the rainfall6h of
\* the same forecast: CRITICAL iff rainfall6h >= 50, HIGH iff 30 <=
\* rainfall6h < 50, MODERATE iff 10 <= rainfall6h < 30, LOW iff rainfall6h <
\* 10.
C23_LevelOfRainfall6h ==
    displayed.modelType # "none" =>
        displayed.level =
            (IF displayed.rainfall6h >= 50 * Scale THEN "CRITICAL"
             ELSE IF displayed.rainfall6h >= 30 * Scale THEN "HIGH"
             ELSE IF displayed.rainfall6h >= 10 * Scale THEN "MODERATE"
             ELSE "LOW")

\* C24: of two forecasts predict returns one after the other, the one
\* computed with the larger or equal history never has the lower confidence.
C24_ConfidenceMonotoneInSize ==
    [][(displayed.modelType # "none" /\ displayed'.modelType # "none") =>
          /\ displayed'.size >= displayed.size
                => displayed'.confidence >= displayed.confidence
          /\ displayed'.size <= displayed.size
                => displayed'.confidence <= displayed.confidence]_vars

\* C25: on the trained path the model input predict builds has exactly 10
\* rows: the last 10 history entries, oldest first, when the history has at
\* least 10 entries, and 10 copies of the current observation when it has
\* fewer.
C25_InputOfTenRows ==
    LET n == Len(historicalData)
        holds(r, e) == /\ r.rainfall.num = e.rainfall
                       /\ r.humidity.num = e.humidity
                       /\ r.temperature.num = e.temperature
    IN  (probe.fn = "predict" /\ pending # << >>) =>
            LET input == pending[1].input
            IN  /\ Len(input) = 10
                /\ n >= 10 => \A j \in 1..10 :
                      /\ holds(input[j], historicalData[n - 10 + j])
                      /\ j > 1 => historicalData[n - 10 + j - 1].timestamp
                                     <= historicalData[n - 10 + j].timestamp
                /\ n < 10 => \A j \in 1..10 : holds(input[j], probe.x)

C25_Witness ==
    /\ probe.fn = "predict"
    /\ pending # << >>
    /\ Len(historicalData) > 10
    /\ pending[1].input[10].rainfall.num = 550
    /\ pending[1].input[9].rainfall.num = 0

\* C26: the direction a forecast reports is the sign of the newest rainfall
\* minus the oldest rainfall in the window of the last min(10, n) history
\* entries, and stable when there are fewer than 2 entries: increasing when
\* positive, decreasing when negative, stable when exactly zero.
C26_TrendIsSignOfChange ==
    LET window == LastN(historicalData, 10)
        change == IF Len(historicalData) < 2 THEN 0
                  ELSE window[Len(window)].rainfall - window[1].rainfall
    IN  (probe.fn = "predict" /\ displayed.modelType # "none") =>
            displayed.trend = (IF change > 0 THEN "increasing"
                               ELSE IF change < 0 THEN "decreasing"
                               ELSE "stable")

\* C27: for a history of n >= L + 1 observations (L = 10) retrainModel builds
\* exactly n - L training pairs; pair i has as input the L observations i ..
\* i + L - 1 and as label the rainfall of observation i + L.
C27_TrainingPairs ==
    LET n == Len(historicalData)
    IN  (probe.fn = "retrainModel" /\ n >= 10 + 1) =>
            /\ Len(probe.rx) = n - 10
            /\ \A i \in 1..(n - 10) :
                  /\ Len(probe.rx[i].input) = 10
                  /\ \A j \in 1..10 :
                        LET r == probe.rx[i].input[j]
                            e == historicalData[i + j - 1]
                        IN  /\ r.rainfall.num = e.rainfall
                            /\ r.humidity.num = e.humidity
                            /\ r.temperature.num = e.temperature
                  /\ probe.rx[i].label.num = historicalData[i + 10].rainfall

C27_Witness ==
    /\ probe.fn = "retrainModel"
    /\ Len(historicalData) > 10 + 1
    /\ Len(probe.rx) = Len(historicalData) - 10
    /\ probe.rx[Len(probe.rx)].label.num = 550
    /\ probe.rx[1].label.num = 0
    /\ fit = "retrain"

\* C28: at most one training run is in progress on the model at any time:
\* retrainModel is never started while a model.fit, of the initial training
\* or of an earlier retrain, has not completed.
C28_OneTrainingRun ==
    [][log'.retrainCalls > log.retrainCalls => fit = "none"]_vars

\* C30 (over a finite run): with observations arriving at a steady cadence
\* and the 24-hour eviction active, the history never settles: it never is a
\* full day of observations, one per interval up to now, of a length that
\* triggers no retrain (a state every further append reproduces, one
\* interval later).
C30_NeverSettles ==
    LET n == Len(historicalData)
    IN  ~ /\ n = DayUnits
          /\ log.evictions > 0
          /\ \A i \in 1..n : historicalData[i].timestamp = now - n + i
          /\ ~retrainDue(n)

====
